---- MODULE Spec2Model ----
(***************************************************************************)
(* Model of the virtual-sensor-hub log tools.                              *)
(*                                                                         *)
(*   tools/check_log.py   the validator: a straight-line script that       *)
(*                        counts SAMPLE/ALERT lines and runs two checks.   *)
(*   tools/parse_logs.py  the analyser: parse_log, summary_csv and the     *)
(*                        moving average of plot_timeseries.               *)
(*                                                                         *)
(* Numbers that Python holds as float are kept in fixed point, FloatUnit   *)
(* units per 1.0, so that int() truncation is visible.  Sample values are  *)
(* finite decimals, as the log format prescribes.                          *)
(***************************************************************************)
EXTENDS Integers, Sequences, FiniteSets, TLC

VARIABLES
    \* ---- check_log.py ----
    pc,             \* position of the script
    argv,           \* sys.argv
    fs,             \* what the file system does with the log path
    duration_s,     \* float(sys.argv[2]), fixed point
    duration_ms,    \* int(duration_s * 1000)
    expected,       \* expected[k]
    sample_counts,
    alert_counts,
    total_lines,
    ok,             \* "unset" until line 89, then "True" / "False"
    stdout,         \* lines printed to stdout, in order
    stderr,         \* lines printed to stderr, in order
    exit_code,      \* -1 while running
    \* ---- parse_logs.py: main / parse_log / summary_csv ----
    p_pc,
    p_fs,           \* "ok" / "missing": does the log path exist
    samples,        \* list of dicts built by parse_log
    alerts,
    df_summary,     \* rows returned by summary_csv
    p_exit,         \* "running", "0", "2", "3" or the uncaught exception
    \* ---- parse_logs.py: plot_timeseries ----
    m_pc,
    m_df,           \* df argument (all samples)
    m_sensor,
    m_window,
    m_d,            \* d: the filtered, then sorted frame
    m_ma,           \* d['ma']
    \* ---- the expected count of a run that is lengthened step by step ----
    e_rate,
    e_d1,           \* duration before the last lengthening
    e_exp1,
    e_d2,           \* duration after it
    e_exp2

vVars == <<pc, argv, fs, duration_s, duration_ms, expected, sample_counts,
           alert_counts, total_lines, ok, stdout, stderr, exit_code>>
pVars == <<p_pc, p_fs, samples, alerts, df_summary, p_exit>>
mVars == <<m_pc, m_df, m_sensor, m_window, m_d, m_ma>>
eVars == <<e_rate, e_d1, e_exp1, e_d2, e_exp2>>
vars  == <<vVars, pVars, mVars, eVars>>

----------------------------------------------------------------------------
(* Bounds *)

MaxLines == 8        \* lines of a log read by the validator
MaxLogLines == 3     \* lines of a log read by parse_log
MaxSamples == 3      \* rows of the frame handed to plot_timeseries
MaxWindow == 2       \* largest --window tried
MaxValue == 2        \* sample values 0..MaxValue
MaxTs == 2           \* timestamps 1..MaxTs
MaxDuration == 5200  \* largest duration_ms tried for the expected count
MaxDelta == 3        \* largest single lengthening of a run, ms

----------------------------------------------------------------------------
(* Program constants *)

Sensors == <<"TEMP", "HUM", "PRESS">>
SensorSet == {"TEMP", "HUM", "PRESS"}

RATES_MS == [TEMP |-> 500, HUM |-> 700, PRESS |-> 1200]

WINDOW_SIZE == 5

FloatUnit == 10000

----------------------------------------------------------------------------
(* Python conversions *)

\* float(s): the strings the model feeds to float(), with their value in
\* FloatUnit fixed point.  ok = FALSE is ValueError; inf = TRUE is float('inf').
FloatTable ==
    [ s \in {"2.5", "2.49999", "0.4999", "0.5", "1.4", "3.6", "0", "-0.0005",
             "-1.2", "21.5", "40", "1013", "1", "30", "80",
             "1000", "1000.7", "2000", "3000",
             "inf", "abc", "xyz", "", "TEMP"} |->
        CASE s = "2.5"     -> [ok |-> TRUE,  inf |-> FALSE, v |-> 25000]
          [] s = "2.49999" -> [ok |-> TRUE,  inf |-> FALSE, v |-> 24999]
          [] s = "0.4999"  -> [ok |-> TRUE,  inf |-> FALSE, v |-> 4999]
          [] s = "0.5"     -> [ok |-> TRUE,  inf |-> FALSE, v |-> 5000]
          [] s = "1.4"     -> [ok |-> TRUE,  inf |-> FALSE, v |-> 14000]
          [] s = "3.6"     -> [ok |-> TRUE,  inf |-> FALSE, v |-> 36000]
          [] s = "0"       -> [ok |-> TRUE,  inf |-> FALSE, v |-> 0]
          [] s = "-0.0005" -> [ok |-> TRUE,  inf |-> FALSE, v |-> -5]
          [] s = "-1.2"    -> [ok |-> TRUE,  inf |-> FALSE, v |-> -12000]
          [] s = "21.5"    -> [ok |-> TRUE,  inf |-> FALSE, v |-> 215000]
          [] s = "40"      -> [ok |-> TRUE,  inf |-> FALSE, v |-> 400000]
          [] s = "1013"    -> [ok |-> TRUE,  inf |-> FALSE, v |-> 10130000]
          [] s = "1"       -> [ok |-> TRUE,  inf |-> FALSE, v |-> 10000]
          [] s = "30"      -> [ok |-> TRUE,  inf |-> FALSE, v |-> 300000]
          [] s = "80"      -> [ok |-> TRUE,  inf |-> FALSE, v |-> 800000]
          [] s = "1000"    -> [ok |-> TRUE,  inf |-> FALSE, v |-> 10000000]
          [] s = "1000.7"  -> [ok |-> TRUE,  inf |-> FALSE, v |-> 10007000]
          [] s = "2000"    -> [ok |-> TRUE,  inf |-> FALSE, v |-> 20000000]
          [] s = "3000"    -> [ok |-> TRUE,  inf |-> FALSE, v |-> 30000000]
          [] s = "inf"     -> [ok |-> TRUE,  inf |-> TRUE,  v |-> 0]
          [] OTHER         -> [ok |-> FALSE, inf |-> FALSE, v |-> 0] ]

float(s) == FloatTable[s]

\* int(x) of a float: truncation toward zero; OverflowError on infinity.
IntTrunc(v) == IF v >= 0 THEN v \div FloatUnit ELSE -((-v) \div FloatUnit)

\* int(duration_s * 1000)
DurationMs(v) == IntTrunc(v * 1000)

----------------------------------------------------------------------------
(* Log lines, already stripped and split on "|" *)

Lines ==
    { <<"">>,                                          \* blank line
      <<"GARBAGE", "xyz">>,
      <<"SAMPLE", "TEMP", "21.5">>,                    \* too few fields
      <<"ALERT", "TEMP", "30", "3000">>,               \* too few fields
      <<"SAMPLE", "TEMP", "21.5", "1000">>,
      <<"SAMPLE", "TEMP", "21.5", "1000.7", "extra">>,
      <<"SAMPLE", "HUM", "40", "1000">>,
      <<"SAMPLE", "PRESS", "1013", "2000">>,
      <<"SAMPLE", "FOO", "1", "1000">>,                \* unknown sensor
      <<"SAMPLE", "TEMP", "abc", "1000">>,             \* value not numeric
      <<"SAMPLE", "HUM", "40", "xyz">>,                \* timestamp not numeric
      <<"ALERT", "TEMP", "30", "3000", "avg">>,
      <<"ALERT", "HUM", "80", "3000", "avg">>,
      <<"ALERT", "PRESS", "1013", "3000", "avg">>,
      <<"ALERT", "FOO", "1", "1000", "avg">>,          \* unknown sensor
      <<"ALERT", "TEMP", "abc", "3000", "avg">>,       \* value not numeric
      <<"ALERT", "PRESS", "1013", "inf", "avg">> }     \* int(inf) overflows

\* `not line` after strip()
IsBlank(parts) == parts = <<"">>

----------------------------------------------------------------------------
(* check_log.py *)

Argvs ==
    { <<"check_log.py">>, <<"check_log.py", "hub.log">>,
      <<"check_log.py", "hub.log", "abc">> }
    \cup { <<"check_log.py", "hub.log", d>> :
             d \in {"2.5", "2.49999", "0.4999", "0.5", "1.4", "3.6", "0",
                    "-0.0005", "-1.2", "inf"} }

\* "ok": readable to the end; "missing": open raises FileNotFoundError;
\* "denied": open raises another OSError; "corrupt": iteration raises
\* part-way (UnicodeDecodeError, OSError).
FsStates == {"ok", "missing", "denied", "corrupt"}

ZeroCounts == [k \in SensorSet |-> 0]

vInit ==
    /\ pc = "usage"
    /\ argv \in Argvs
    /\ fs \in FsStates
    /\ duration_s = 0
    /\ duration_ms = 0
    /\ expected = ZeroCounts
    /\ sample_counts = ZeroCounts
    /\ alert_counts = ZeroCounts
    /\ total_lines = 0
    /\ ok = "unset"
    /\ stdout = <<>>
    /\ stderr = <<>>
    /\ exit_code = -1

vIdle ==
    /\ pc = "off"
    /\ argv = <<"check_log.py">>
    /\ fs = "ok"
    /\ duration_s = 0
    /\ duration_ms = 0
    /\ expected = ZeroCounts
    /\ sample_counts = ZeroCounts
    /\ alert_counts = ZeroCounts
    /\ total_lines = 0
    /\ ok = "unset"
    /\ stdout = <<>>
    /\ stderr = <<>>
    /\ exit_code = -1

\* sys.exit(code) after printing msg to stderr
Exit(code, msg) ==
    /\ pc' = "done"
    /\ exit_code' = code
    /\ stderr' = Append(stderr, msg)

\* lines 19-21
CheckUsage ==
    /\ pc = "usage"
    /\ UNCHANGED <<pVars, mVars, eVars>>
    /\ IF Len(argv) < 3
         THEN /\ Exit(2, "Usage")
              /\ UNCHANGED <<argv, fs, duration_s, duration_ms, expected,
                             sample_counts, alert_counts, total_lines, ok,
                             stdout>>
         ELSE /\ pc' = "duration"
              /\ UNCHANGED <<argv, fs, duration_s, duration_ms, expected,
                             sample_counts, alert_counts, total_lines, ok,
                             stdout, stderr, exit_code>>

\* lines 23-28
ParseDuration ==
    /\ pc = "duration"
    /\ UNCHANGED <<pVars, mVars, eVars>>
    /\ IF float(argv[3]).ok
         THEN /\ duration_s' = float(argv[3]).v
              /\ pc' = "expected"
              /\ UNCHANGED <<stderr, exit_code>>
         ELSE /\ Exit(2, "Invalid duration_seconds")
              /\ UNCHANGED duration_s
    /\ UNCHANGED <<argv, fs, duration_ms, expected, sample_counts,
                   alert_counts, total_lines, ok, stdout>>

\* slip: the allowance of one sample is forgotten, max(1, raw)
ExpectedCount_NoSlack(d_ms, ms) ==
    LET raw == d_ms \div ms
    IN  IF raw > 1 THEN raw ELSE 1

\* slip: abs(raw - 1) instead of max(1, raw - 1)
ExpectedCount_Abs(d_ms, ms) ==
    LET raw == d_ms \div ms
    IN  IF raw - 1 >= 0 THEN raw - 1 ELSE 1 - raw

\* lines 44-45: raw = duration_ms // ms; max(1, raw - 1)
ExpectedCount(d_ms, ms) ==
    LET raw == d_ms \div ms
    IN  IF raw - 1 > 1 THEN raw - 1 ELSE 1

\* lines 40-50.  int() of an infinite duration raises OverflowError, which
\* nothing catches: the interpreter prints the traceback and exits with 1.
ComputeExpected ==
    /\ pc = "expected"
    /\ UNCHANGED <<pVars, mVars, eVars>>
    /\ IF float(argv[3]).inf
         THEN /\ Exit(1, "Traceback")
              /\ UNCHANGED <<duration_ms, expected, sample_counts,
                             alert_counts, total_lines>>
         ELSE /\ duration_ms' = DurationMs(duration_s)
              /\ expected' = [k \in SensorSet |->
                                ExpectedCount(DurationMs(duration_s), RATES_MS[k])]
              /\ sample_counts' = ZeroCounts
              /\ alert_counts' = ZeroCounts
              /\ total_lines' = 0
              /\ pc' = "open"
              /\ UNCHANGED <<stderr, exit_code>>
    /\ UNCHANGED <<argv, fs, duration_s, ok, stdout>>

\* line 53 with the handlers of lines 68-73
OpenLog ==
    /\ pc = "open"
    /\ UNCHANGED <<pVars, mVars, eVars>>
    /\ CASE fs = "missing" -> Exit(3, "Log file not found")
         [] fs = "denied"  -> Exit(4, "Error reading log")
         [] OTHER          -> /\ pc' = "read"
                              /\ UNCHANGED <<stderr, exit_code>>
    /\ UNCHANGED <<argv, fs, duration_s, duration_ms, expected,
                   sample_counts, alert_counts, total_lines, ok, stdout>>

\* lines 60-67: the effect of one non-blank line on the two counters
CountSample(parts) ==
    IF parts[1] = "SAMPLE" /\ Len(parts) >= 4 /\ parts[2] \in DOMAIN sample_counts
      THEN [sample_counts EXCEPT ![parts[2]] = @ + 1]
      ELSE sample_counts

CountAlert(parts) ==
    IF /\ ~(parts[1] = "SAMPLE" /\ Len(parts) >= 4)
       /\ parts[1] = "ALERT" /\ Len(parts) >= 5
       /\ parts[2] \in DOMAIN alert_counts
      THEN [alert_counts EXCEPT ![parts[2]] = @ + 1]
      ELSE alert_counts

\* lines 54-67, one iteration of the loop
ReadLine(parts) ==
    /\ pc = "read"
    /\ UNCHANGED <<pVars, mVars, eVars>>
    /\ total_lines < MaxLines
    /\ total_lines' = total_lines + 1
    /\ IF IsBlank(parts)
         THEN UNCHANGED <<sample_counts, alert_counts>>
         ELSE /\ sample_counts' = CountSample(parts)
              /\ alert_counts' = CountAlert(parts)
    /\ UNCHANGED <<pc, argv, fs, duration_s, duration_ms, expected, ok,
                   stdout, stderr, exit_code>>

\* slip: the read error is swallowed and the run goes on to report
ReadError_Swallow ==
    /\ pc = "read"
    /\ UNCHANGED <<pVars, mVars, eVars>>
    /\ fs = "corrupt"
    /\ stdout' = stdout \o <<"Log:", "Duration (s):", "Total log lines:",
                             "Sample counts:", "Alert counts:">>
    /\ pc' = "check1"
    /\ UNCHANGED <<argv, fs, duration_s, duration_ms, expected,
                   sample_counts, alert_counts, total_lines, ok, stderr,
                   exit_code>>

\* lines 71-73: the iteration raises before the end of the file
ReadError ==
    /\ pc = "read"
    /\ UNCHANGED <<pVars, mVars, eVars>>
    /\ fs = "corrupt"
    /\ Exit(4, "Error reading log")
    /\ UNCHANGED <<argv, fs, duration_s, duration_ms, expected,
                   sample_counts, alert_counts, total_lines, ok, stdout>>

\* the loop of line 54 ends, then lines 75-86
Report ==
    /\ pc = "read"
    /\ UNCHANGED <<pVars, mVars, eVars>>
    /\ fs = "ok"
    /\ stdout' = stdout \o <<"Log:", "Duration (s):", "Total log lines:",
                             "Sample counts:", "Alert counts:">>
    /\ pc' = "check1"
    /\ UNCHANGED <<argv, fs, duration_s, duration_ms, expected,
                   sample_counts, alert_counts, total_lines, ok, stderr,
                   exit_code>>

ErrLow ==
    [TEMP  |-> "ERROR: TEMP sample count too low",
     HUM   |-> "ERROR: HUM sample count too low",
     PRESS |-> "ERROR: PRESS sample count too low"]

ErrNoAlert == "ERROR: No TEMP ALERT found"

\* slip: the loop breaks at the first sensor that is too low
RECURSIVE LowErrors_Break(_)
LowErrors_Break(i) ==
    IF i > Len(Sensors) THEN <<>>
    ELSE IF sample_counts[Sensors[i]] < expected[Sensors[i]]
           THEN <<ErrLow[Sensors[i]]>>
           ELSE LowErrors_Break(i + 1)

\* lines 90-93: the messages of the loop over ("TEMP","HUM","PRESS")
RECURSIVE LowErrors(_)
LowErrors(i) ==
    IF i > Len(Sensors) THEN <<>>
    ELSE (IF sample_counts[Sensors[i]] < expected[Sensors[i]]
            THEN <<ErrLow[Sensors[i]]>> ELSE <<>>) \o LowErrors(i + 1)

\* slip: ok is overwritten by each sensor, so the last one decides
Check1_LastWins ==
    /\ pc = "check1"
    /\ UNCHANGED <<pVars, mVars, eVars>>
    /\ stderr' = stderr \o LowErrors(1)
    /\ ok' = IF sample_counts[Sensors[Len(Sensors)]] < expected[Sensors[Len(Sensors)]]
               THEN "False" ELSE "True"
    /\ pc' = "check2"
    /\ UNCHANGED <<argv, fs, duration_s, duration_ms, expected,
                   sample_counts, alert_counts, total_lines, stdout,
                   exit_code>>

\* lines 88-93
Check1 ==
    /\ pc = "check1"
    /\ UNCHANGED <<pVars, mVars, eVars>>
    /\ stderr' = stderr \o LowErrors(1)
    /\ ok' = IF LowErrors(1) = <<>> THEN "True" ELSE "False"
    /\ pc' = "check2"
    /\ UNCHANGED <<argv, fs, duration_s, duration_ms, expected,
                   sample_counts, alert_counts, total_lines, stdout,
                   exit_code>>

\* slip: > instead of >= in the comparison with the window-fill threshold
Check2_StrictlyLonger ==
    /\ pc = "check2"
    /\ UNCHANGED <<pVars, mVars, eVars>>
    /\ LET min_ms_for_window_temp == WINDOW_SIZE * RATES_MS["TEMP"]
       IN  IF duration_ms > min_ms_for_window_temp
             THEN IF alert_counts["TEMP"] < 1
                    THEN /\ stderr' = Append(stderr, ErrNoAlert)
                         /\ ok' = "False"
                         /\ UNCHANGED stdout
                    ELSE /\ stdout' = Append(stdout, "OK: TEMP ALERTs found")
                         /\ UNCHANGED <<stderr, ok>>
             ELSE UNCHANGED <<stdout, stderr, ok>>
    /\ pc' = "final"
    /\ UNCHANGED <<argv, fs, duration_s, duration_ms, expected,
                   sample_counts, alert_counts, total_lines, exit_code>>

\* lines 95-102
Check2 ==
    /\ pc = "check2"
    /\ UNCHANGED <<pVars, mVars, eVars>>
    /\ LET min_ms_for_window_temp == WINDOW_SIZE * RATES_MS["TEMP"]
       IN  IF duration_ms >= min_ms_for_window_temp
             THEN IF alert_counts["TEMP"] < 1
                    THEN /\ stderr' = Append(stderr, ErrNoAlert)
                         /\ ok' = "False"
                         /\ UNCHANGED stdout
                    ELSE /\ stdout' = Append(stdout, "OK: TEMP ALERTs found")
                         /\ UNCHANGED <<stderr, ok>>
             ELSE UNCHANGED <<stdout, stderr, ok>>
    /\ pc' = "final"
    /\ UNCHANGED <<argv, fs, duration_s, duration_ms, expected,
                   sample_counts, alert_counts, total_lines, exit_code>>

\* lines 104-110
Final ==
    /\ pc = "final"
    /\ UNCHANGED <<pVars, mVars, eVars>>
    /\ IF ok # "True"
         THEN /\ Exit(1, "CHECK FAILED")
              /\ UNCHANGED stdout
         ELSE /\ pc' = "done"
              /\ exit_code' = 0
              /\ stdout' = Append(stdout, "CHECK PASSED")
              /\ UNCHANGED stderr
    /\ UNCHANGED <<argv, fs, duration_s, duration_ms, expected,
                   sample_counts, alert_counts, total_lines, ok>>

Next ==
    \/ CheckUsage
    \/ ParseDuration
    \/ ComputeExpected
    \/ OpenLog
    \/ \E parts \in Lines : ReadLine(parts)
    \/ ReadError
    \/ Report
    \/ Check1
    \/ Check2
    \/ Final

----------------------------------------------------------------------------
(* parse_logs.py: main, parse_log, summary_csv *)

pInit ==
    /\ p_pc = "exists"
    /\ p_fs \in {"ok", "missing"}
    /\ samples = <<>>
    /\ alerts = <<>>
    /\ df_summary = <<>>
    /\ p_exit = "running"

pIdle ==
    /\ p_pc = "off"
    /\ p_fs = "ok"
    /\ samples = <<>>
    /\ alerts = <<>>
    /\ df_summary = <<>>
    /\ p_exit = "running"

\* lines 225-228
CheckExists ==
    /\ p_pc = "exists"
    /\ UNCHANGED <<vVars, mVars, eVars>>
    /\ IF p_fs = "missing"
         THEN p_pc' = "done" /\ p_exit' = "2"
         ELSE p_pc' = "parse" /\ UNCHANGED p_exit
    /\ UNCHANGED <<p_fs, samples, alerts, df_summary>>

\* lines 60-61 / 68-69: both conversions succeed
Converts(parts) ==
    /\ float(parts[3]).ok /\ ~float(parts[3]).inf
    /\ float(parts[4]).ok /\ ~float(parts[4]).inf

\* lines 57-64: the rows a line appends to samples
ParseSample(parts) ==
    IF ~IsBlank(parts) /\ parts[1] = "SAMPLE" /\ Len(parts) >= 4
       /\ Converts(parts)
      THEN <<[type |-> parts[2], value |-> float(parts[3]).v,
              ts_ms |-> IntTrunc(float(parts[4]).v)]>>
      ELSE <<>>

\* lines 65-73: the rows a line appends to alerts
ParseAlert(parts) ==
    IF ~IsBlank(parts) /\ ~(parts[1] = "SAMPLE" /\ Len(parts) >= 4)
       /\ parts[1] = "ALERT" /\ Len(parts) >= 5 /\ Converts(parts)
      THEN <<[type |-> parts[2], value |-> float(parts[3]).v,
              ts_ms |-> IntTrunc(float(parts[4]).v), info |-> parts[5]]>>
      ELSE <<>>

\* lines 52-73, one iteration of the loop of parse_log
ParseLine(parts) ==
    /\ p_pc = "parse"
    /\ UNCHANGED <<vVars, mVars, eVars>>
    /\ Len(samples) + Len(alerts) < MaxLogLines
    /\ samples' = samples \o ParseSample(parts)
    /\ alerts' = alerts \o ParseAlert(parts)
    /\ UNCHANGED <<p_pc, p_fs, df_summary, p_exit>>

\* lines 74-76 and 233-235
EndParse ==
    /\ p_pc = "parse"
    /\ UNCHANGED <<vVars, mVars, eVars>>
    /\ IF samples = <<>>
         THEN p_pc' = "done" /\ p_exit' = "3"
         ELSE p_pc' = "summary" /\ UNCHANGED p_exit
    /\ UNCHANGED <<p_fs, samples, alerts, df_summary>>

\* sorted(): the sensor names the model uses, in Python string order
SortedNames == <<"FOO", "HUM", "PRESS", "TEMP">>

Types(rows) == {rows[i].type : i \in 1..Len(rows)}

\* df[df['type'] == s]
RECURSIVE OfType(_, _)
OfType(rows, s) ==
    IF rows = <<>> THEN <<>>
    ELSE (IF Head(rows).type = s THEN <<Head(rows)>> ELSE <<>>)
         \o OfType(Tail(rows), s)

RECURSIVE SumValues(_)
SumValues(rows) ==
    IF rows = <<>> THEN 0 ELSE Head(rows).value + SumValues(Tail(rows))

MinValue(rows) ==
    CHOOSE v \in {rows[i].value : i \in 1..Len(rows)} :
        \A i \in 1..Len(rows) : v <= rows[i].value

MaxValueOf(rows) ==
    CHOOSE v \in {rows[i].value : i \in 1..Len(rows)} :
        \A i \in 1..Len(rows) : v >= rows[i].value

\* lines 93-101: one row; mean is sum / count (std, a square root, is
\* left out of the row)
SummaryRow(s, df_samples, df_alerts) ==
    LET d == OfType(df_samples, s)
    IN  [sensor |-> s, count |-> Len(d), min |-> MinValue(d),
         max |-> MaxValueOf(d), sum |-> SumValues(d),
         alert_count |-> Len(OfType(df_alerts, s))]

\* lines 89-102: one row per name of sorted(df_samples['type'].unique())
RECURSIVE SummaryRows(_, _, _)
SummaryRows(i, df_samples, df_alerts) ==
    IF i > Len(SortedNames) THEN <<>>
    ELSE (IF SortedNames[i] \in Types(df_samples)
            THEN <<SummaryRow(SortedNames[i], df_samples, df_alerts)>>
            ELSE <<>>) \o SummaryRows(i + 1, df_samples, df_alerts)

\* lines 239 and 88-105.  pd.DataFrame([]) has no columns, so
\* df_alerts['type'] of line 100 raises KeyError when no alert was parsed.
SummaryCsv ==
    /\ p_pc = "summary"
    /\ UNCHANGED <<vVars, mVars, eVars>>
    /\ IF alerts = <<>>
         THEN /\ p_pc' = "done"
              /\ p_exit' = "KeyError"
              /\ UNCHANGED df_summary
         ELSE /\ p_pc' = "charts"
              /\ df_summary' = SummaryRows(1, samples, alerts)
              /\ UNCHANGED p_exit
    /\ UNCHANGED <<p_fs, samples, alerts>>

NextParse ==
    \/ CheckExists
    \/ \E parts \in Lines : ParseLine(parts)
    \/ EndParse
    \/ SummaryCsv

----------------------------------------------------------------------------
(* parse_logs.py: plot_timeseries, up to the moving average *)

SampleRows ==
    [type : {"TEMP", "HUM"}, value : 0..MaxValue, ts_ms : 1..MaxTs]

RECURSIVE SeqsUpTo(_, _)
SeqsUpTo(S, n) ==
    IF n = 0 THEN {<<>>}
    ELSE LET shorter == SeqsUpTo(S, n - 1)
         IN  shorter \cup {Append(q, x) : q \in shorter, x \in S}

mInit ==
    /\ m_pc = "call"
    /\ m_df \in SeqsUpTo(SampleRows, MaxSamples)
    /\ m_sensor = "TEMP"
    /\ m_window \in 1..MaxWindow
    /\ m_d = <<>>
    /\ m_ma = <<>>

mIdle ==
    /\ m_pc = "off"
    /\ m_df = <<>>
    /\ m_sensor = "TEMP"
    /\ m_window = 1
    /\ m_d = <<>>
    /\ m_ma = <<>>

\* line 132: sort_values('ts_ms') uses the default quicksort, which is not
\* stable: every ascending arrangement of the rows is a possible result.
SortValues(d) ==
    { r \in { [i \in 1..Len(d) |-> d[p[i]]] : p \in Permutations(1..Len(d)) } :
        \A i \in 1..(Len(d) - 1) : r[i].ts_ms <= r[i + 1].ts_ms }

\* slip: the value leaves the window one position too early
RECURSIVE Roll_OffByOne(_, _, _, _, _, _)
Roll_OffByOne(d, window, min_periods, i, sum_x, nobs) ==
    IF i > Len(d) THEN <<>>
    ELSE LET leaves == i >= window /\ i > 1
             s == sum_x + d[i].value
                  - (IF leaves THEN d[i - window + 1 - (IF window = 1 THEN 1 ELSE 0)].value ELSE 0)
             n == nobs + 1 - (IF leaves THEN 1 ELSE 0)
         IN  <<IF n >= min_periods THEN [sum |-> s, n |-> n]
                                   ELSE [sum |-> 0, n |-> 0]>>
             \o Roll_OffByOne(d, window, min_periods, i + 1, s, n)

\* line 135: rolling(window, min_periods).mean() as pandas computes it, a
\* running sum and a running number of observations; value i enters the
\* window and value i - window leaves it.  A point is the exact fraction
\* sum / n; n = 0 stands for NaN (fewer than min_periods observations).
RECURSIVE Roll(_, _, _, _, _, _)
Roll(d, window, min_periods, i, sum_x, nobs) ==
    IF i > Len(d) THEN <<>>
    ELSE LET leaves == i > window
             s == sum_x + d[i].value - (IF leaves THEN d[i - window].value ELSE 0)
             n == nobs + 1 - (IF leaves THEN 1 ELSE 0)
         IN  <<IF n >= min_periods THEN [sum |-> s, n |-> n]
                                   ELSE [sum |-> 0, n |-> 0]>>
             \o Roll(d, window, min_periods, i + 1, s, n)

RollingMean(d, window) == Roll(d, window, 1, 1, 0, 0)

\* lines 127-135
PlotTimeseries ==
    /\ m_pc = "call"
    /\ UNCHANGED <<vVars, pVars, eVars>>
    /\ LET d == OfType(m_df, m_sensor)
       IN  IF d = <<>>
             THEN /\ m_pc' = "skipped"
                  /\ UNCHANGED <<m_d, m_ma>>
             ELSE /\ m_pc' = "plotted"
                  /\ \E sorted \in SortValues(d) :
                        /\ m_d' = sorted
                        /\ m_ma' = RollingMean(sorted, m_window)
    /\ UNCHANGED <<m_df, m_sensor, m_window>>

NextMA == PlotTimeseries

----------------------------------------------------------------------------
(* check_log.py lines 44-45 applied to a run that is lengthened *)

Rates == {RATES_MS[k] : k \in SensorSet}

\* shortest duration tried: a negative one, below every rate
FirstDuration == 0 - (RATES_MS["PRESS"] + 1)

eInit ==
    /\ e_rate \in Rates
    /\ e_d1 = FirstDuration
    /\ e_d2 = FirstDuration
    /\ e_exp1 = ExpectedCount(FirstDuration, e_rate)
    /\ e_exp2 = ExpectedCount(FirstDuration, e_rate)

eIdle ==
    /\ e_rate = RATES_MS["TEMP"]
    /\ e_d1 = 0
    /\ e_d2 = 0
    /\ e_exp1 = 1
    /\ e_exp2 = 1

Lengthen(delta) ==
    /\ e_d2 + delta <= MaxDuration
    /\ UNCHANGED <<vVars, pVars, mVars>>
    /\ e_d1' = e_d2
    /\ e_exp1' = e_exp2
    /\ e_d2' = e_d2 + delta
    /\ e_exp2' = ExpectedCount(e_d2 + delta, e_rate)
    /\ UNCHANGED e_rate

NextExpected == \E delta \in 1..MaxDelta : Lengthen(delta)

----------------------------------------------------------------------------
(* Specifications *)

Init == vInit /\ pIdle /\ mIdle /\ eIdle
Spec == Init /\ [][Next]_vars

InitParse == pInit /\ vIdle /\ mIdle /\ eIdle
SpecParse == InitParse /\ [][NextParse]_vars

InitMA == mInit /\ vIdle /\ pIdle /\ eIdle
SpecMA == InitMA /\ [][NextMA]_vars

InitExpected == eInit /\ vIdle /\ pIdle /\ mIdle
SpecExpected == InitExpected /\ [][NextExpected]_vars

----------------------------------------------------------------------------
(* Vocabulary of the properties *)

Range(q) == {q[i] : i \in 1..Len(q)}

Occurrences(q, x) == Cardinality({i \in 1..Len(q) : q[i] = x})

\* max(1, floor(D / R) - 1), as the specification writes it
Threshold(D, R) == IF (D \div R) - 1 >= 1 THEN (D \div R) - 1 ELSE 1

\* the run had valid arguments (a log path and a finite number of seconds)
\* / a log that could be read to its end
ValidArgs == Len(argv) >= 3 /\ float(argv[3]).ok /\ ~float(argv[3]).inf
ReadableLog == fs = "ok"

Insufficient(k) == sample_counts[k] < Threshold(duration_ms, RATES_MS[k])
AlertMissing == duration_ms >= 2500 /\ alert_counts["TEMP"] = 0
AllChecksPass == (\A k \in SensorSet : ~Insufficient(k)) /\ ~AlertMissing

ErrorLines == {ErrLow[k] : k \in SensorSet} \cup {ErrNoAlert}
FailingChecks ==
    {ErrLow[k] : k \in {x \in SensorSet : Insufficient(x)}}
    \cup (IF AlertMissing THEN {ErrNoAlert} ELSE {})

Verdicts == Occurrences(stdout, "CHECK PASSED") + Occurrences(stderr, "CHECK FAILED")

----------------------------------------------------------------------------
(* check_log.py: properties *)

\* C1: a run with valid arguments and a readable log ends with exit code 0
\* exactly when the three completeness checks and the TEMP alert check all
\* pass, and with 1 exactly when one of them fails; exactly one verdict is
\* printed and it matches the exit code.
C1_ExitCode ==
    (pc = "done" /\ ValidArgs /\ ReadableLog) =>
        /\ exit_code \in {0, 1}
        /\ (exit_code = 0) <=> AllChecksPass
        /\ (exit_code = 1) <=> ~AllChecksPass
        /\ Verdicts = 1
        /\ (exit_code = 0) <=> (stdout # <<>> /\ stdout[Len(stdout)] = "CHECK PASSED")
        /\ (exit_code = 1) <=> (stderr # <<>> /\ stderr[Len(stderr)] = "CHECK FAILED")

\* a long run that passes all four checks
C1_Witness ==
    /\ pc = "done"
    /\ exit_code = 0
    /\ duration_ms >= 2500
    /\ Verdicts = 1

\* C2: the threshold of each sensor is max(1, floor(D / R) - 1) and the
\* sensor is reported insufficient exactly when its SAMPLE count is strictly
\* below it; for D < R the threshold is 1, so zero samples always fail.
C2_Threshold ==
    (pc \in {"check2", "final"} \/ (pc = "done" /\ ok # "unset")) =>
        \A k \in SensorSet :
            /\ expected[k] = Threshold(duration_ms, RATES_MS[k])
            /\ (ErrLow[k] \in Range(stderr)) <=> (sample_counts[k] < expected[k])
            /\ duration_ms < RATES_MS[k] =>
                   /\ expected[k] = 1
                   /\ sample_counts[k] = 0 => ErrLow[k] \in Range(stderr)

\* PRESS is one short of a threshold of 2 and is flagged, TEMP meets its
\* threshold of 6 exactly and is not
C2_Witness ==
    /\ pc = "done"
    /\ expected["PRESS"] = 2
    /\ sample_counts["PRESS"] = 1
    /\ ErrLow["PRESS"] \in Range(stderr)
    /\ sample_counts["TEMP"] = expected["TEMP"]
    /\ expected["TEMP"] = 6
    /\ ErrLow["TEMP"] \notin Range(stderr)

\* C3: the alert-policy check fails exactly when duration_ms >= 2500 and no
\* TEMP alert was counted; below 2500 ms it is satisfied whatever the alert
\* counts, and the HUM and PRESS alert counts play no part.
C3_AlertPolicy ==
    (pc = "final" \/ (pc = "done" /\ ok # "unset")) =>
        /\ (ErrNoAlert \in Range(stderr))
               <=> (duration_ms >= 2500 /\ alert_counts["TEMP"] = 0)
        /\ duration_ms < 2500 =>
               /\ ErrNoAlert \notin Range(stderr)
               /\ (ok = "False") <=> (\E k \in SensorSet : Insufficient(k))
        /\ (duration_ms >= 2500 /\ alert_counts["TEMP"] = 0) => ok = "False"

\* a run of exactly 2500 ms with HUM and PRESS alerts but no TEMP alert
C3_Witness ==
    /\ pc = "done"
    /\ duration_ms = 2500
    /\ alert_counts["TEMP"] = 0
    /\ alert_counts["HUM"] > 0
    /\ alert_counts["PRESS"] > 0
    /\ ErrNoAlert \in Range(stderr)

\* a line the specification calls malformed
Malformed(parts) ==
    \/ IsBlank(parts)
    \/ parts[1] \notin {"SAMPLE", "ALERT"}
    \/ parts[1] = "SAMPLE" /\ Len(parts) < 4
    \/ parts[1] = "ALERT" /\ Len(parts) < 5
    \/ ~Converts(parts)

\* C4: a blank line, a line with an unknown first field, a line with too few
\* fields and a line whose value or timestamp is not numeric are all
\* skipped: the line count grows by one, no sample count and no alert count
\* changes, and parse_log appends to neither list.
C4_MalformedSkipped ==
    [][ \A parts \in Lines :
          Malformed(parts) =>
            /\ ReadLine(parts) =>
                 /\ total_lines' = total_lines + 1
                 /\ sample_counts' = sample_counts
                 /\ alert_counts' = alert_counts
            /\ ParseLine(parts) => (samples' = samples /\ alerts' = alerts)
      ]_vars

\* C5: a missing log ends the run with exit code 3 and any other failure to
\* open or read it with exit code 4; nothing is reported, no check is
\* evaluated and no verdict is printed.
C5_FileErrors ==
    (pc = "done" /\ ValidArgs) =>
        /\ (fs = "missing") <=> (exit_code = 3)
        /\ (fs \in {"denied", "corrupt"}) <=> (exit_code = 4)
        /\ exit_code \in {3, 4} =>
               /\ stdout = <<>>
               /\ ok = "unset"
               /\ Range(stderr) \cap ErrorLines = {}
               /\ Verdicts = 0
               /\ Len(stderr) = 1

\* the read fails after lines have been counted
C5_Witness ==
    /\ pc = "done"
    /\ exit_code = 4
    /\ fs = "corrupt"
    /\ total_lines >= 2
    /\ sample_counts["TEMP"] >= 1

\* C9: the ERROR lines of a run are exactly its failing checks, each once,
\* whatever the combination of failures, and the CHECK FAILED verdict comes
\* after all of them.
C9_AllFailuresReported ==
    (pc = "done" /\ ok # "unset") =>
        /\ exit_code \in {0, 1}
        /\ Range(stderr) \cap ErrorLines = FailingChecks
        /\ \A e \in FailingChecks : Occurrences(stderr, e) = 1
        /\ exit_code = 1 =>
               /\ Len(stderr) = Cardinality(FailingChecks) + 1
               /\ \A i \in 1..(Len(stderr) - 1) : stderr[i] \in ErrorLines
               /\ stderr[Len(stderr)] = "CHECK FAILED"

\* all four checks fail in one run
C9_Witness ==
    /\ pc = "done"
    /\ exit_code = 1
    /\ FailingChecks = ErrorLines
    /\ Len(stderr) = 5

----------------------------------------------------------------------------
(* parse_logs.py: properties *)

RECURSIVE WindowSum(_, _, _)
WindowSum(d, lo, hi) ==
    IF lo > hi THEN 0 ELSE d[hi].value + WindowSum(d, lo, hi - 1)

\* C6: for a window w >= 1 the moving average is taken over the sensor's
\* samples in ascending timestamp order, has one point per input sample,
\* and point i is the mean of the values at positions max(first, i-w+1)..i;
\* so the first sample has a value, one sample gives its own value, and a
\* constant input gives that constant everywhere.
C6_MovingAverage ==
    m_pc = "plotted" =>
        LET input == OfType(m_df, m_sensor)
            n == Len(input)
        IN  /\ Len(m_d) = n
            /\ Len(m_ma) = n
            /\ \A r \in SampleRows : Occurrences(m_d, r) = Occurrences(input, r)
            /\ \A i \in 1..(n - 1) : m_d[i].ts_ms <= m_d[i + 1].ts_ms
            /\ \A i \in 1..n :
                 LET lo == IF i - m_window + 1 > 1 THEN i - m_window + 1 ELSE 1
                 IN  /\ m_ma[i].n = i - lo + 1
                     /\ m_ma[i].sum = WindowSum(m_d, lo, i)
            /\ n = 1 => (m_ma[1].n = 1 /\ m_ma[1].sum = input[1].value)
            /\ \A c \in 0..MaxValue :
                 (\A j \in 1..n : input[j].value = c) =>
                     \A i \in 1..n : m_ma[i].sum = c * m_ma[i].n

\* the window slides over unsorted, non-constant samples
C6_Witness ==
    /\ m_pc = "plotted"
    /\ m_window >= 2
    /\ Len(m_d) > m_window
    /\ m_d # OfType(m_df, m_sensor)
    /\ \E i, j \in 1..Len(m_d) : m_d[i].value # m_d[j].value
    /\ Len(m_ma) = Len(m_d)

\* C7: summary_csv yields one row per sensor type that has a sample and none
\* for a type without samples; count is the number of the sensor's samples
\* and alert_count the number of parsed alerts of that type, 0 when there
\* are none, also when no ALERT line was parsed at all.
C7_SummaryRows ==
    (samples # <<>> /\ (p_pc = "charts" \/ (p_pc = "done" /\ p_exit \notin {"2", "3"}))) =>
        /\ {df_summary[i].sensor : i \in 1..Len(df_summary)} = Types(samples)
        /\ Len(df_summary) = Cardinality(Types(samples))
        /\ \A i \in 1..Len(df_summary) :
             /\ df_summary[i].count =
                    Cardinality({j \in 1..Len(samples) :
                                   samples[j].type = df_summary[i].sensor})
             /\ df_summary[i].alert_count =
                    Cardinality({j \in 1..Len(alerts) :
                                   alerts[j].type = df_summary[i].sensor})

\* a well-formed SAMPLE or ALERT line of a sensor outside TEMP, HUM, PRESS
UnknownSensorLine(parts) ==
    /\ ~Malformed(parts)
    /\ parts[2] \notin SensorSet

\* C10: a well-formed line of an unknown sensor type changes none of the
\* validator's six counts and gives no summary row and no contribution to
\* one.
C10_UnknownExcluded ==
    /\ [][ \A parts \in Lines :
             (UnknownSensorLine(parts) /\ ReadLine(parts)) =>
                 (sample_counts' = sample_counts /\ alert_counts' = alert_counts)
         ]_vars
    /\ [](p_pc = "charts" =>
            \A i \in 1..Len(df_summary) :
               /\ df_summary[i].sensor \in SensorSet
               /\ df_summary[i].count =
                      Cardinality({j \in 1..Len(samples) :
                                     /\ samples[j].type \in SensorSet
                                     /\ samples[j].type = df_summary[i].sensor})
               /\ df_summary[i].alert_count =
                      Cardinality({j \in 1..Len(alerts) :
                                     /\ alerts[j].type \in SensorSet
                                     /\ alerts[j].type = df_summary[i].sensor}))

----------------------------------------------------------------------------
(* expected count: properties *)

\* C8: for each rate, a longer run never has a lower expected count, the
\* count being max(1, floor(D / R) - 1).
C8_Monotone ==
    /\ e_exp1 = Threshold(e_d1, e_rate)
    /\ e_exp2 = Threshold(e_d2, e_rate)
    /\ e_d1 <= e_d2 => e_exp1 <= e_exp2

\* a lengthening that crosses a multiple of the PRESS rate and raises the
\* count above the floor of 1
C8_Witness ==
    /\ e_rate = 1200
    /\ e_d1 < e_d2
    /\ e_exp1 = 2
    /\ e_exp2 = 3

====
